---------------------------- MODULE Spec2Model ----------------------------
(***************************************************************************)
(* A model of three pieces of opentelemetry-js-contrib:                    *)
(*   - KinesisServiceExtension.requestPreSpanHook (aws-sdk instrumentation)*)
(*   - generateRandomBytes, the browser random source of AWSXRayIdGenerator*)
(*   - AzureVmResourceDetector.detect / getAzureVmMetadata                 *)
(* and of the per-call lifecycle of the instrumentation's dispatcher.      *)
(***************************************************************************)
EXTENDS Integers, Sequences, FiniteSets, TLC

VARIABLES
  observed,   \* Kinesis: the (request, config, metadata) triples returned so far
  nCalls,     \* Kinesis: number of requestPreSpanHook calls made on the instance
  SHARED_CHAR_CODES_ARRAY, \* X-Ray: the module-level char-code buffer
  genPc,      \* X-Ray: position of generateRandomBytes ("idle", "loop", "returned")
  genBytes,   \* X-Ray: the argument `bytes` of the running call
  genI,       \* X-Ray: the loop index i
  genDraws,   \* X-Ray: the values Math.floor(Math.random() * 16) drew in this call
  genResult,  \* X-Ray: the string returned, one character per element
  azPc,          \* Azure: "idle" before detect(), "detecting" after
  timeoutId,     \* Azure: the 1000 ms timer: "unset", "armed", "cleared", "fired"
  req,           \* Azure: the http.ClientRequest: "none", "sent", "response",
                 \*        "ended", "errored", "destroyed"
  socketTimedOut,\* Azure: the request emitted 'timeout' (options.timeout)
  statusCode,    \* Azure: res.statusCode, 0 before the response arrives
  rawData,       \* Azure: the body chunks concatenated so far
  metadata,      \* Azure: the promise awaited at line 153: [state, value]
  dataPromise,   \* Azure: the promise getAzureVmMetadata() returned: [state, value]
  attributes,    \* Azure: detect()'s attribute promises, by attribute name
  thenNext,      \* Azure: how many of the then-reactions of dataPromise have run
  dispatch       \* Dispatcher: per instrumented call, its lifecycle record

kinesisVars == <<observed, nCalls>>

xrayVars == <<SHARED_CHAR_CODES_ARRAY, genPc, genBytes, genI, genDraws, genResult>>

azureVars == <<azPc, timeoutId, req, socketTimedOut, statusCode, rawData,
               metadata, dataPromise, attributes, thenNext>>

vars == <<observed, nCalls,
          SHARED_CHAR_CODES_ARRAY, genPc, genBytes, genI, genDraws, genResult,
          azPc, timeoutId, req, socketTimedOut, statusCode, rawData,
          metadata, dataPromise, attributes, thenNext, dispatch>>

-----------------------------------------------------------------------------
(* JavaScript values, as far as the Kinesis hook can tell them apart.      *)

JsVal(t, r) == [type |-> t, repr |-> r]

Undefined == JsVal("undefined", "undefined")
Null      == JsVal("null", "null")

\* The values a caller may put under commandInput.StreamName
\* (commandInput is Record<string, any>).
StreamNameValues ==
  { Undefined, Null,
    JsVal("string", ""), JsVal("string", "orders-stream"),
    JsVal("number", "0"), JsVal("boolean", "true"),
    JsVal("object", "{arn:1}"), JsVal("array", "[orders]") }

\* A presence test (`streamName !== undefined`) in place of the truthiness test.
ToBoolean_definedOnly(v) == v.type # "undefined"

\* ECMAScript ToBoolean: the test of `if (streamName)`.
ToBoolean(v) ==
  CASE v.type = "undefined" -> FALSE
    [] v.type = "null"      -> FALSE
    [] v.type = "boolean"   -> v.repr = "true"
    [] v.type = "number"    -> v.repr \notin {"0", "-0", "NaN"}
    [] v.type = "string"    -> v.repr # ""
    [] OTHER                -> TRUE

\* An OpenTelemetry AttributeValue is a string, number or boolean.
IsPrimitive(v) == v.type \in {"string", "number", "boolean"}

AWS_KINESIS_STREAM_NAME == "aws.kinesis.stream.name"

\* commandInput: absent, or a mapping of parameter name -> value.
NoCommandInput == [present |-> FALSE, params |-> [k \in {} |-> Undefined]]

CommandInputOf(params) == [present |-> TRUE, params |-> params]

CommandInputs ==
  { NoCommandInput, CommandInputOf([k \in {} |-> Undefined]) }
    \cup { CommandInputOf([k \in {"StreamName"} |-> v]) : v \in StreamNameValues }

WriteOperations == {"PutRecord"}
ReadOperations  == {"GetRecords"}
OperationNames  == WriteOperations \cup ReadOperations

NormalizedRequests ==
  [ serviceName : {"Kinesis"}, commandName : OperationNames,
    commandInput : CommandInputs ]

Configs == { [suppressInternalInstrumentation |-> b] : b \in BOOLEAN }

\* Reads the parameter of another service's extension (a copy-paste slip).
StreamNameOf_tableName(request) ==
  IF ~request.commandInput.present THEN Undefined
  ELSE IF "TableName" \in DOMAIN request.commandInput.params
       THEN request.commandInput.params["TableName"]
       ELSE Undefined

\* request.commandInput?.StreamName
StreamNameOf(request) ==
  IF ~request.commandInput.present THEN Undefined
  ELSE IF "StreamName" \in DOMAIN request.commandInput.params
       THEN request.commandInput.params["StreamName"]
       ELSE Undefined

EmptyAttributes == [k \in {} |-> Undefined]

\* The attributes a defective extension would leak from an earlier call if
\* spanAttributes were an instance field instead of a local.
LeakedAttributes ==
  IF \E o \in observed : DOMAIN o.metadata.spanAttributes # {}
  THEN (CHOOSE o \in observed : DOMAIN o.metadata.spanAttributes # {}).metadata.spanAttributes
  ELSE EmptyAttributes

requestPreSpanHook_shared(request, config) ==
  LET streamName == StreamNameOf(request)
  IN [ isIncoming |-> FALSE,
       spanAttributes |->
         IF ToBoolean(streamName)
         THEN [k \in {AWS_KINESIS_STREAM_NAME} |-> streamName]
         ELSE LeakedAttributes,
       spanKind |-> "CLIENT" ]

\* The messaging span-kind policy applied to Kinesis writes.
requestPreSpanHook_producer(request, config) ==
  LET streamName == StreamNameOf(request)
  IN [ isIncoming |-> FALSE,
       spanAttributes |->
         IF ToBoolean(streamName)
         THEN [k \in {AWS_KINESIS_STREAM_NAME} |-> streamName]
         ELSE EmptyAttributes,
       spanKind |-> IF request.commandName \in WriteOperations
                    THEN "PRODUCER" ELSE "CLIENT" ]

\* The messaging span-kind policy applied to Kinesis reads.
requestPreSpanHook_consumer(request, config) ==
  LET streamName == StreamNameOf(request)
  IN [ isIncoming |-> FALSE,
       spanAttributes |->
         IF ToBoolean(streamName)
         THEN [k \in {AWS_KINESIS_STREAM_NAME} |-> streamName]
         ELSE EmptyAttributes,
       spanKind |-> IF request.commandName \in ReadOperations
                    THEN "CONSUMER" ELSE "CLIENT" ]

\* KinesisServiceExtension.requestPreSpanHook
requestPreSpanHook(request, config) ==
  LET streamName == StreamNameOf(request)
      spanKind   == "CLIENT"
      spanAttributes ==
        IF ToBoolean(streamName)
        THEN [k \in {AWS_KINESIS_STREAM_NAME} |-> streamName]
        ELSE EmptyAttributes
      isIncoming == FALSE
  IN [ isIncoming |-> isIncoming,
       spanAttributes |-> spanAttributes,
       spanKind |-> spanKind ]

MaxCalls == 3

InitKinesis ==
  /\ observed = {}
  /\ nCalls = 0

\* One call of the hook on the shared extension instance.
CallRequestPreSpanHook ==
  /\ UNCHANGED <<xrayVars, azureVars, dispatch>>
  /\ nCalls < MaxCalls
  /\ \E request \in NormalizedRequests, config \in Configs :
       observed' = observed \cup
         { [ request |-> request, config |-> config,
             metadata |-> requestPreSpanHook(request, config) ] }
  /\ nCalls' = nCalls + 1

-----------------------------------------------------------------------------
(* Claims about KinesisServiceExtension.requestPreSpanHook.                *)

\* What the caller supplied under commandInput.StreamName, read off the
\* request itself: "absent" covers a missing commandInput, a missing key and
\* the values undefined and null.
Supplied(request) ==
  IF request.commandInput.present
     /\ "StreamName" \in DOMAIN request.commandInput.params
  THEN request.commandInput.params["StreamName"]
  ELSE Undefined

IsAbsent(v) == v.type \in {"undefined", "null"}
IsEmptyString(v) == v.type = "string" /\ v.repr = ""
\* 0, NaN and false: present, but JavaScript treats them as false.
IsFalsyScalar(v) ==
  \/ v.type = "number" /\ v.repr \in {"0", "-0", "NaN"}
  \/ v.type = "boolean" /\ v.repr = "false"

C2_AbsentStreamNameOmitted ==
  \A o \in observed :
    LET v == Supplied(o.request)
        a == o.metadata.spanAttributes
    IN /\ (IsAbsent(v) \/ IsEmptyString(v)) => DOMAIN a = {}
       /\ AWS_KINESIS_STREAM_NAME \in DOMAIN a
            => ~IsAbsent(a[AWS_KINESIS_STREAM_NAME])
               /\ ~IsEmptyString(a[AWS_KINESIS_STREAM_NAME])

C2_Witness ==
  /\ \E o \in observed :
       ~o.request.commandInput.present /\ DOMAIN o.metadata.spanAttributes = {}
  /\ \E o \in observed :
       /\ o.request.commandInput.present
       /\ Supplied(o.request) = Null
       /\ DOMAIN o.metadata.spanAttributes = {}
  /\ \E o \in observed :
       IsEmptyString(Supplied(o.request)) /\ DOMAIN o.metadata.spanAttributes = {}

\* C3: every returned RequestMetadata has spanKind CLIENT and isIncoming
\* false, whatever the operation name, the commandInput and the config.
C3_ClientAndOutgoing ==
  \A o \in observed :
    o.metadata.spanKind = "CLIENT" /\ o.metadata.isIncoming = FALSE

C3_Witness ==
  \E o1, o2 \in observed :
    /\ o1.request.commandName \in WriteOperations
    /\ o2.request.commandName \in ReadOperations
    /\ o1.config # o2.config
    /\ o1.request.commandInput # o2.request.commandInput
    /\ o1.metadata.spanKind = "CLIENT" /\ o2.metadata.spanKind = "CLIENT"

\* C4 as claimed: the Kinesis extension returns PRODUCER for write operations
\* and CONSUMER for read/poll operations.
C4_ProducerConsumerPolicy ==
  \A o \in observed :
    /\ o.request.commandName \in WriteOperations => o.metadata.spanKind = "PRODUCER"
    /\ o.request.commandName \in ReadOperations => o.metadata.spanKind = "CONSUMER"

\* C4 as amended: the Kinesis extension applies no messaging span kind; for
\* write and for read operations alike the span kind is CLIENT, never
\* PRODUCER or CONSUMER.
C4_NoMessagingSpanKind ==
  \A o \in observed :
    o.request.commandName \in (WriteOperations \cup ReadOperations)
      => /\ o.metadata.spanKind \notin {"PRODUCER", "CONSUMER"}
         /\ o.metadata.spanKind = "CLIENT"

C4_Witness ==
  /\ \E o \in observed :
       o.request.commandName \in WriteOperations /\ o.metadata.spanKind = "CLIENT"
  /\ \E o \in observed :
       o.request.commandName \in ReadOperations /\ o.metadata.spanKind = "CLIENT"

C9_AttributeValuesPrimitive ==
  \A o \in observed :
    \A k \in DOMAIN o.metadata.spanAttributes :
      IsPrimitive(o.metadata.spanAttributes[k])

-----------------------------------------------------------------------------
(* generateRandomBytes, the random source of the browser AWSXRayIdGenerator *)

TRACE_ID_BYTES == 16

\* Math.floor(Math.random() * 16) lies in 0 .. RandomRange - 1.
RandomRange == 16

\* Largest `bytes` argument explored.
MaxBytes == 1

\* An element of Array(n) that was never assigned.
Hole == -1

\* String.fromCharCode for one code unit; an unassigned element converts to
\* code unit 0.  NUL, backslash and backquote are written by code point.
FromCharCode(c) ==
  CASE c = Hole -> "U+0000"
    [] c \in 48..57 ->
         <<"0", "1", "2", "3", "4", "5", "6", "7", "8", "9">>[c - 47]
    [] c \in 58..64 -> <<":", ";", "<", "=", ">", "?", "@">>[c - 57]
    [] c \in 65..96 ->
         << "A", "B", "C", "D", "E", "F", "G", "H", "I", "J", "K", "L", "M",
            "N", "O", "P", "Q", "R", "S", "T", "U", "V", "W", "X", "Y", "Z",
            "[", "U+005C", "]", "^", "_", "U+0060" >>[c - 64]
    [] c \in 97..102 -> <<"a", "b", "c", "d", "e", "f">>[c - 96]
    [] OTHER -> "?other"

\* The `> 58` slip: the draw 10 keeps code 58, the character ":".
hexCharCode_offByOne(d) ==
  LET c == d + 48 IN IF c > 58 THEN c + 39 ELSE c

\* The char code stored for a draw d: d + 48, moved up by 39 past the digits.
hexCharCode(d) ==
  LET c == d + 48 IN IF c >= 58 THEN c + 39 ELSE c

\* arr[i] = c for a 0-based index i; assigning past the end extends the array.
ArraySet(arr, i, c) ==
  IF i < Len(arr)
  THEN [arr EXCEPT ![i + 1] = c]
  ELSE [j \in 1..(i + 1) |->
          IF j = i + 1 THEN c ELSE IF j <= Len(arr) THEN arr[j] ELSE Hole]

\* arr.slice(0, end)
Slice0(arr, end) ==
  SubSeq(arr, 1, IF end < Len(arr) THEN end ELSE Len(arr))

InitXRay ==
  /\ SHARED_CHAR_CODES_ARRAY = [j \in 1..(TRACE_ID_BYTES * 2) |-> Hole]
  /\ genPc = "idle"
  /\ genBytes = 0
  /\ genI = 0
  /\ genDraws = <<>>
  /\ genResult = <<>>

\* generateRandomBytes(bytes) is entered; calls never overlap (the function
\* is synchronous), and the buffer keeps what the last call left in it.
GenerateRandomBytesCall ==
  /\ genPc \in {"idle", "returned"}
  /\ \E bytes \in 0..MaxBytes : genBytes' = bytes
  /\ genI' = 0
  /\ genDraws' = <<>>
  /\ genResult' = <<>>
  /\ genPc' = "loop"
  /\ UNCHANGED <<SHARED_CHAR_CODES_ARRAY>>
  /\ UNCHANGED <<kinesisVars, azureVars, dispatch>>

\* One iteration of the for loop.
GenerateRandomBytesIterate ==
  /\ genPc = "loop"
  /\ genI < genBytes * 2
  /\ \E d \in 0..(RandomRange - 1) :
       /\ SHARED_CHAR_CODES_ARRAY' =
            ArraySet(SHARED_CHAR_CODES_ARRAY, genI, hexCharCode(d))
       /\ genDraws' = Append(genDraws, d)
  /\ genI' = genI + 1
  /\ UNCHANGED <<genPc, genBytes, genResult>>
  /\ UNCHANGED <<kinesisVars, azureVars, dispatch>>

\* The loop is over: String.fromCharCode.apply(null, array.slice(0, bytes * 2)).
GenerateRandomBytesReturn ==
  /\ genPc = "loop"
  /\ ~(genI < genBytes * 2)
  /\ genResult' =
       LET codes == Slice0(SHARED_CHAR_CODES_ARRAY, genBytes * 2)
       IN [j \in 1..Len(codes) |-> FromCharCode(codes[j])]
  /\ genPc' = "returned"
  /\ UNCHANGED <<SHARED_CHAR_CODES_ARRAY, genBytes, genI, genDraws>>
  /\ UNCHANGED <<kinesisVars, azureVars, dispatch>>

HexDigits ==
  {"0", "1", "2", "3", "4", "5", "6", "7", "8", "9", "a", "b", "c", "d", "e", "f"}

\* C8: generateRandomBytes(n) returns exactly 2n characters, each a lowercase
\* hex digit; the character for a draw d is the one with code 48 + d when
\* d <= 9 and 87 + d when d >= 10.
C8_LowercaseHex ==
  genPc = "returned" =>
    /\ Len(genResult) = 2 * genBytes
    /\ Len(genDraws) = 2 * genBytes
    /\ \A j \in 1..Len(genResult) :
         /\ genResult[j] \in HexDigits
         /\ genResult[j] =
              FromCharCode(IF genDraws[j] <= 9 THEN 48 + genDraws[j]
                                              ELSE 87 + genDraws[j])

\* A call returned a non-empty string that holds both a digit drawn as 9 and
\* a letter drawn as 10, over a buffer an earlier call had already filled.
C8_Witness ==
  /\ genPc = "returned"
  /\ genBytes >= 1
  /\ \E j, k \in 1..Len(genResult) :
       /\ genDraws[j] = 9 /\ genResult[j] = "9"
       /\ genDraws[k] = 10 /\ genResult[k] = "a"

-----------------------------------------------------------------------------
(* AzureVmResourceDetector: detect() and getAzureVmMetadata()              *)

\* The ten attribute names of detect(), in the order of attrNames.
attrNames ==
  << "azure.vm.scaleset.name", "azure.vm.sku", "cloud.platform",
     "cloud.provider", "cloud.region", "cloud.resource_id", "host.id",
     "host.name", "host.type", "os.version" >>

AttrNameSet == { attrNames[i] : i \in 1..Len(attrNames) }

\* The pieces a response body is made of, as the 'data' events deliver them.
Chunks == { "{", "location:westus", "}", "null" }

\* Largest number of 'data' events of one response.
MaxChunks == 3

\* The status codes the metadata endpoint answers with.
StatusCodes == {199, 200, 299, 300, 404}

Pending == [state |-> "pending", value |-> Undefined]
Fulfilled(v) == [state |-> "fulfilled", value |-> v]
Rejected(message) == [state |-> "rejected", value |-> JsVal("error", message)]

\* resolve()/reject() of a promise: only the first call settles it.
Settle(promise, outcome) ==
  IF promise.state = "pending" THEN outcome ELSE promise

JsonObject(fields) == [kind |-> "object", fields |-> fields]
JsonNull == [kind |-> "null", fields |-> [k \in {} |-> Undefined]]

\* JSON.parse on the concatenated body: an object with no member, an object
\* with the member "location", the literal null; anything else (the empty
\* body, a truncated or garbled one) throws a SyntaxError.
JSONparse(raw) ==
  CASE raw = <<"{", "}">> ->
         [ok |-> TRUE, value |-> JsonObject([k \in {} |-> Undefined])]
    [] raw = <<"{", "location:westus", "}">> ->
         [ok |-> TRUE,
          value |-> JsonObject([k \in {"location"} |-> JsVal("string", "westus")])]
    [] raw = <<"null">> -> [ok |-> TRUE, value |-> JsonNull]
    [] OTHER -> [ok |-> FALSE, value |-> JsonNull]

\* statusCode && statusCode >= 200 && statusCode < 300
IsSuccessStatus(code) == code # 0 /\ code >= 200 /\ code < 300

\* The res.on('end') handler: how it settles the awaited promise.
OnEnd(code, raw) ==
  IF IsSuccessStatus(code)
  THEN IF JSONparse(raw).ok
       THEN Fulfilled(JSONparse(raw).value)
       ELSE Rejected("SyntaxError")
  ELSE Rejected("Failed to load page, status code")

\* metadata[field] on a parsed object: undefined when the member is missing.
MetadataField(m, field) ==
  IF field \in DOMAIN m.fields THEN m.fields[field] ELSE Undefined

\* The attribute record built at lines 186-197.
BuildAttributes(m) ==
  [ name \in AttrNameSet |->
      CASE name = "azure.vm.scaleset.name" -> MetadataField(m, "vmScaleSetName")
        [] name = "azure.vm.sku"           -> MetadataField(m, "sku")
        [] name = "cloud.platform"         -> JsVal("string", "azure_vm")
        [] name = "cloud.provider"         -> JsVal("string", "azure")
        [] name = "cloud.region"           -> MetadataField(m, "location")
        [] name = "cloud.resource_id"      -> MetadataField(m, "resourceId")
        [] name = "host.id"                -> MetadataField(m, "vmId")
        [] name = "host.name"              -> MetadataField(m, "name")
        [] name = "host.type"              -> MetadataField(m, "vmSize")
        [] name = "os.version"             -> MetadataField(m, "version") ]

\* The empty resource `{}` returned by the catch block.
EmptyResource == [k \in {} |-> Undefined]

\* A catch block that logs and rethrows.
AfterAwait_rethrow(awaited) ==
  IF awaited.state = "fulfilled" /\ awaited.value.kind # "null"
  THEN Fulfilled(BuildAttributes(awaited.value))
  ELSE Rejected("rethrown")

\* getAzureVmMetadata after the await: the attribute record when the awaited
\* promise fulfilled with something that can be indexed (indexing null throws
\* a TypeError inside the try), the empty resource from the catch otherwise.
AfterAwait(awaited) ==
  IF awaited.state = "fulfilled" /\ awaited.value.kind # "null"
  THEN Fulfilled(BuildAttributes(awaited.value))
  ELSE Fulfilled(EmptyResource)

\* data[name]
DataLookup(data, name) ==
  IF name \in DOMAIN data THEN data[name] ELSE Undefined

InitAzure ==
  /\ azPc = "idle"
  /\ timeoutId = "unset"
  /\ req = "none"
  /\ socketTimedOut = FALSE
  /\ statusCode = 0
  /\ rawData = <<>>
  /\ metadata = Pending
  /\ dataPromise = Pending
  /\ attributes = [name \in AttrNameSet |-> Pending]
  /\ thenNext = 0

\* detect(): getAzureVmMetadata() runs up to its await (the timer is armed,
\* the request is sent) and the ten reactions are registered on dataPromise.
Detect ==
  /\ azPc = "idle"
  /\ azPc' = "detecting"
  /\ timeoutId' = "armed"
  /\ req' = "sent"
  /\ UNCHANGED <<socketTimedOut, statusCode, rawData, metadata, dataPromise,
                 attributes, thenNext>>
  /\ UNCHANGED <<kinesisVars, xrayVars, dispatch>>

\* The 1000 ms timer fires: req.destroy(); reject(...).
TimeoutFires ==
  /\ timeoutId = "armed"
  /\ timeoutId' = "fired"
  /\ req' = "destroyed"
  /\ metadata' = Settle(metadata, Rejected("Azure metadata service request timed out."))
  /\ UNCHANGED <<azPc, socketTimedOut, statusCode, rawData, dataPromise,
                 attributes, thenNext>>
  /\ UNCHANGED <<kinesisVars, xrayVars, dispatch>>

\* The 5000 ms socket timeout of options.timeout: the request emits
\* 'timeout', for which no listener is registered.
SocketTimeout ==
  /\ req \in {"sent", "response"}
  /\ ~socketTimedOut
  /\ socketTimedOut' = TRUE
  /\ UNCHANGED <<azPc, timeoutId, req, statusCode, rawData, metadata,
                 dataPromise, attributes, thenNext>>
  /\ UNCHANGED <<kinesisVars, xrayVars, dispatch>>

\* The response headers arrive: the callback of http.request runs.
Response ==
  /\ req = "sent"
  /\ \E code \in StatusCodes : statusCode' = code
  /\ timeoutId' = IF timeoutId = "armed" THEN "cleared" ELSE timeoutId
  /\ rawData' = <<>>
  /\ req' = "response"
  /\ UNCHANGED <<azPc, socketTimedOut, metadata, dataPromise, attributes, thenNext>>
  /\ UNCHANGED <<kinesisVars, xrayVars, dispatch>>

\* res.on('data'): rawData += chunk
ResponseData ==
  /\ req = "response"
  /\ Len(rawData) < MaxChunks
  /\ \E chunk \in Chunks : rawData' = Append(rawData, chunk)
  /\ UNCHANGED <<azPc, timeoutId, req, socketTimedOut, statusCode, metadata,
                 dataPromise, attributes, thenNext>>
  /\ UNCHANGED <<kinesisVars, xrayVars, dispatch>>

\* res.on('end')
ResponseEnd ==
  /\ req = "response"
  /\ req' = "ended"
  /\ metadata' = Settle(metadata, OnEnd(statusCode, rawData))
  /\ UNCHANGED <<azPc, timeoutId, socketTimedOut, statusCode, rawData,
                 dataPromise, attributes, thenNext>>
  /\ UNCHANGED <<kinesisVars, xrayVars, dispatch>>

\* req.on('error'): a connection error before or during the response, or the
\* 'socket hang up' that follows req.destroy().
RequestError ==
  /\ req \in {"sent", "response", "destroyed"}
  /\ req' = "errored"
  /\ timeoutId' = IF timeoutId = "armed" THEN "cleared" ELSE timeoutId
  /\ metadata' = Settle(metadata, Rejected("connect error"))
  /\ UNCHANGED <<azPc, socketTimedOut, statusCode, rawData, dataPromise,
                 attributes, thenNext>>
  /\ UNCHANGED <<kinesisVars, xrayVars, dispatch>>

\* The awaited promise has settled: the rest of getAzureVmMetadata runs and
\* settles the promise it returned.
ResumeAfterAwait ==
  /\ metadata.state # "pending"
  /\ dataPromise.state = "pending"
  /\ dataPromise' = AfterAwait(metadata)
  /\ UNCHANGED <<azPc, timeoutId, req, socketTimedOut, statusCode, rawData,
                 metadata, attributes, thenNext>>
  /\ UNCHANGED <<kinesisVars, xrayVars, dispatch>>

\* The next reaction `data => data[name]` registered by detect() runs (the
\* reactions run in registration order).
RunThen ==
  /\ dataPromise.state # "pending"
  /\ thenNext < Len(attrNames)
  /\ LET name == attrNames[thenNext + 1]
     IN attributes' =
          [attributes EXCEPT ![name] =
             IF dataPromise.state = "fulfilled"
             THEN Fulfilled(DataLookup(dataPromise.value, name))
             ELSE dataPromise]
  /\ thenNext' = thenNext + 1
  /\ UNCHANGED <<azPc, timeoutId, req, socketTimedOut, statusCode, rawData,
                 metadata, dataPromise>>
  /\ UNCHANGED <<kinesisVars, xrayVars, dispatch>>

\* The bodies JSON.parse accepts, written out independently of JSONparse.
ValidJsonBodies ==
  { <<"{", "}">>, <<"{", "location:westus", "}">>, <<"null">> }

\* The metadata request failed: the 1000 ms timer fired first, the request
\* emitted 'error', the response ended with a status outside 200..299, or it
\* ended with a body that is not valid JSON.
RequestFailed ==
  \/ timeoutId = "fired"
  \/ req = "errored"
  \/ req = "ended" /\ statusCode \notin 200..299
  \/ req = "ended" /\ statusCode \in 200..299 /\ rawData \notin ValidJsonBodies

\* C7: getAzureVmMetadata never rejects, and no attribute promise of detect()
\* rejects; once the metadata request has failed, getAzureVmMetadata resolves
\* with {} and every attribute promise resolves to undefined.
C7_FailsToEmptyResource ==
  /\ dataPromise.state # "rejected"
  /\ \A name \in AttrNameSet : attributes[name].state # "rejected"
  /\ RequestFailed =>
       /\ metadata.state = "rejected"
       /\ dataPromise.state = "fulfilled" => dataPromise.value = EmptyResource
       /\ \A name \in AttrNameSet :
            attributes[name].state = "fulfilled"
              => attributes[name].value = Undefined
       /\ thenNext = Len(attrNames) =>
            \A name \in AttrNameSet : attributes[name] = Fulfilled(Undefined)

\* The timer fired before any answer and all ten attribute promises have
\* resolved to undefined.
C7_Witness ==
  /\ timeoutId = "fired"
  /\ dataPromise = Fulfilled(EmptyResource)
  /\ thenNext = Len(attrNames)
  /\ \A name \in AttrNameSet : attributes[name] = Fulfilled(Undefined)

\* C10: every call of getAzureVmMetadata eventually settles, whatever the
\* metadata endpoint does, provided timers fire.
C10_EventuallySettles ==
  (azPc = "detecting") ~> (dataPromise.state # "pending")

-----------------------------------------------------------------------------
(* The dispatcher's per-call lifecycle (instrumentCall):                    *)
(* PENDING -> NORMALIZED -> CLASSIFIED -> SPAN_ACTIVE                       *)
(*         -> {SUCCEEDED | FAILED} -> SPAN_ENDED                            *)

\* Number of instrumented calls in flight at once.
MaxInFlight == 2

CallIds == 1..MaxInFlight

\* How the underlying invocation can complete.
InvocationOutcomes == {"returned", "threw", "cancelled"}

\* The metadata used when the extension's hook throws: the default extension's.
DefaultRequestMetadata ==
  [isIncoming |-> FALSE, spanAttributes |-> EmptyAttributes, spanKind |-> "CLIENT"]

\* The requests the dispatcher hands to the Kinesis extension.
DispatchedRequests ==
  { r \in NormalizedRequests :
      r.commandInput \in
        { NoCommandInput,
          CommandInputOf([k \in {"StreamName"} |-> JsVal("string", "orders-stream")]) } }

NewCall ==
  [ phase |-> "PENDING", metadata |-> DefaultRequestMetadata,
    spansStarted |-> 0, spansEnded |-> 0, status |-> "UNSET" ]

\* A completion step that forgets the span when the invocation is cancelled.
SpansEndedBy_leakOnCancel(phase) ==
  IF phase = "FAILED_CANCELLED" THEN 0 ELSE 1

\* The number of times the completion step ends the span: once, whether the
\* invocation returned, threw or was cancelled.
SpansEndedBy(phase) == 1

\* The state the call enters when the underlying invocation completes.  FAILED
\* covers a thrown error and a cancellation; the cancelled case is kept apart
\* by name so that the cause stays visible in the state.
PhaseAfter(outcome) ==
  CASE outcome = "returned"  -> "SUCCEEDED"
    [] outcome = "threw"     -> "FAILED"
    [] outcome = "cancelled" -> "FAILED_CANCELLED"

InitDispatcher ==
  dispatch = [c \in CallIds |-> NewCall]

\* The Request Normalizer builds the NormalizedRequest; it never throws.
Normalize(c) ==
  /\ dispatch[c].phase = "PENDING"
  /\ dispatch' = [dispatch EXCEPT ![c].phase = "NORMALIZED"]
  /\ UNCHANGED <<kinesisVars, xrayVars, azureVars>>

\* requestPreSpanHook runs inside the failure boundary: a throwing hook is
\* replaced by the default metadata.
Classify(c) ==
  /\ dispatch[c].phase = "NORMALIZED"
  /\ \E request \in DispatchedRequests, config \in Configs, hookThrew \in BOOLEAN :
       dispatch' =
         [dispatch EXCEPT
            ![c].phase = "CLASSIFIED",
            ![c].metadata = IF hookThrew THEN DefaultRequestMetadata
                            ELSE requestPreSpanHook(request, config)]
  /\ UNCHANGED <<kinesisVars, xrayVars, azureVars>>

\* The span is started with the resolved kind and attributes.
StartSpan(c) ==
  /\ dispatch[c].phase = "CLASSIFIED"
  /\ dispatch' =
       [dispatch EXCEPT ![c].phase = "SPAN_ACTIVE",
                        ![c].spansStarted = @ + 1]
  /\ UNCHANGED <<kinesisVars, xrayVars, azureVars>>

\* The underlying invocation completes: it returns, throws or is cancelled.
InvocationCompletes(c) ==
  /\ dispatch[c].phase = "SPAN_ACTIVE"
  /\ \E outcome \in InvocationOutcomes :
       dispatch' = [dispatch EXCEPT ![c].phase = PhaseAfter(outcome)]
  /\ UNCHANGED <<kinesisVars, xrayVars, azureVars>>

\* The completion step: responseHook runs inside the failure boundary, the
\* span status reflects the underlying call's error only, the span is ended.
EndSpan(c) ==
  /\ dispatch[c].phase \in {"SUCCEEDED", "FAILED", "FAILED_CANCELLED"}
  /\ \E responseHookThrew \in BOOLEAN :
       dispatch' =
         [dispatch EXCEPT
            ![c].phase = "SPAN_ENDED",
            ![c].status = IF dispatch[c].phase = "SUCCEEDED" THEN "UNSET" ELSE "ERROR",
            ![c].spansEnded = @ + SpansEndedBy(dispatch[c].phase)]
  /\ UNCHANGED <<kinesisVars, xrayVars, azureVars>>

\* C6: a call never has more than one span started or ended, never ends a
\* span it did not start, has ended exactly one span when it reaches
\* SPAN_ENDED, and every call that started a span eventually ends it, also
\* when the underlying invocation throws or is cancelled.
C6_SpanEndedExactlyOnce ==
  /\ [](\A c \in CallIds :
          /\ dispatch[c].spansStarted <= 1
          /\ dispatch[c].spansEnded <= dispatch[c].spansStarted
          /\ dispatch[c].phase = "SPAN_ENDED"
               => dispatch[c].spansStarted = 1 /\ dispatch[c].spansEnded = 1)
  /\ \A c \in CallIds :
       (dispatch[c].spansStarted = 1)
         ~> (dispatch[c].phase = "SPAN_ENDED" /\ dispatch[c].spansEnded = 1)

\* One call ended its span after a cancelled invocation while another ended
\* its span after a successful one.
C6_Witness ==
  \E c1, c2 \in CallIds :
    /\ dispatch[c1].phase = "SPAN_ENDED" /\ dispatch[c1].status = "ERROR"
    /\ dispatch[c1].spansEnded = 1
    /\ dispatch[c2].phase = "SPAN_ENDED" /\ dispatch[c2].status = "UNSET"
    /\ dispatch[c2].spansEnded = 1

-----------------------------------------------------------------------------
Init == InitKinesis /\ InitXRay /\ InitAzure /\ InitDispatcher

NextKinesis == CallRequestPreSpanHook

SpecKinesis == Init /\ [][NextKinesis]_vars

NextXRay ==
  \/ GenerateRandomBytesCall
  \/ GenerateRandomBytesIterate
  \/ GenerateRandomBytesReturn

SpecXRay == Init /\ [][NextXRay]_vars

NextAzure ==
  \/ Detect
  \/ TimeoutFires
  \/ SocketTimeout
  \/ Response
  \/ ResponseData
  \/ ResponseEnd
  \/ RequestError
  \/ ResumeAfterAwait
  \/ RunThen

SpecAzure == Init /\ [][NextAzure]_vars

\* Timers fire and queued promise reactions run; what the metadata endpoint
\* sends, and when, is up to the endpoint.
FairnessAzure ==
  /\ WF_vars(Detect)
  /\ WF_vars(TimeoutFires)
  /\ WF_vars(SocketTimeout)
  /\ WF_vars(ResumeAfterAwait)
  /\ WF_vars(RunThen)

SpecAzureFair == Init /\ [][NextAzure]_vars /\ FairnessAzure

NextDispatcher ==
  \E c \in CallIds :
    \/ Normalize(c)
    \/ Classify(c)
    \/ StartSpan(c)
    \/ InvocationCompletes(c)
    \/ EndSpan(c)

\* Every step of a call is eventually taken: the dispatcher's own steps run,
\* and the underlying invocation returns, throws or is cancelled.
FairnessDispatcher ==
  \A c \in CallIds :
    /\ WF_vars(Normalize(c))
    /\ WF_vars(Classify(c))
    /\ WF_vars(StartSpan(c))
    /\ WF_vars(InvocationCompletes(c))
    /\ WF_vars(EndSpan(c))

SpecDispatcher == Init /\ [][NextDispatcher]_vars /\ FairnessDispatcher

Next == NextKinesis \/ NextXRay \/ NextAzure \/ NextDispatcher

Spec == Init /\ [][Next]_vars

=============================================================================
